---- MODULE Spec2Model ----
(***************************************************************************)
(* Model of 4_003_Project_Collaboration_Competition/ddpg.py: the DDGP      *)
(* agent's bookkeeping (replay memory, step counter, train flag,           *)
(* exploration coefficient, target-network soft updates) and the           *)
(* ReplayBuffer it owns.                                                   *)
(*                                                                         *)
(* Three specifications share the variables:                               *)
(*   SpecBuffer  a ReplayBuffer used on its own (add, sample, len)         *)
(*   SpecSoft    DDGP.soft_update called on the agent's two network pairs  *)
(*   Spec        a DDGP agent driven through its public methods            *)
(* Numbers the code keeps as floats are kept exact: network parameters and *)
(* tau are rationals <<numerator, denominator>>, the exploration           *)
(* coefficient is the sequence of factors (in thousandths) that 1.0 has    *)
(* been multiplied by.                                                     *)
(***************************************************************************)
EXTENDS Integers, Sequences, FiniteSets, TLC

VARIABLES
    buffer_size,    \* DDGP.buffer_size / deque maxlen
    batch_size,     \* DDGP.batch_size
    min_req_exp,    \* DDGP.min_req_exp
    learn_every,    \* DDGP.learn_every
    tau,            \* DDGP.tau, a rational
    memory,         \* DDGP.memory, the ReplayBuffer object; memory.memory is
                    \* its deque, oldest experience first
    step_mem,       \* DDGP.step_mem
    train,          \* DDGP.train
    exploration,    \* DDGP.exploration: factors applied to 1.0, oldest first
    actor_local,    \* parameters of the four networks, one rational each
    actor_target,
    critic_local,
    critic_target,
    last,           \* the latest call: what it was and how it ended
    adds,           \* history: every experience passed to add, oldest first
    steps_since,    \* history: values update_counter gave step_mem since the
                    \* latest of construction, reset and trigger_learn
    soft_calls      \* history: number of soft_update calls

vars == <<buffer_size, batch_size, min_req_exp, learn_every, tau, memory,
          step_mem, train, exploration, actor_local, actor_target,
          critic_local, critic_target, last, adds, steps_since, soft_calls>>

config == <<buffer_size, batch_size, min_req_exp, learn_every, tau>>
nets == <<actor_local, actor_target, critic_local, critic_target>>

-----------------------------------------------------------------------------
(* Bounds of the model *)

MaxBufferSize == 2
MaxBatchSize == 1
MaxMinReqExp == 2
MaxLearnEvery == 2
MaxAdds == 3
MaxStepMem == 3
MaxDecay == 3
MaxSoftCalls == 2

-----------------------------------------------------------------------------
(* Exact rationals <<n, d>> with d > 0 and gcd(n, d) = 1 *)

Abs(x) == IF x < 0 THEN -x ELSE x

RECURSIVE Gcd(_, _)
Gcd(a, b) == IF b = 0 THEN a ELSE Gcd(b, a % b)

Norm(n, d) ==
    LET g == Gcd(Abs(n), d) IN
    IF g = 0 THEN <<0, 1>> ELSE <<n \div g, d \div g>>

RAdd(x, y) == Norm(x[1] * y[2] + y[1] * x[2], x[2] * y[2])
RMul(x, y) == Norm(x[1] * y[1], x[2] * y[2])
ROne == <<1, 1>>
RSub(x, y) == RAdd(x, <<-y[1], y[2]>>)

Min(a, b) == IF a < b THEN a ELSE b

-----------------------------------------------------------------------------
(* Inputs *)

\* The argument tuples (state, action, reward, next_state, done) handed to
\* add and memorize; the five fields of a tuple are pairwise different.
Inputs == { <<1, 2, 3, 4, FALSE>>, <<5, 6, 7, 8, TRUE>> }

\* The values of tau handed to soft_update.
Taus == { <<0, 1>>, <<1, 4>>, <<1, 2>>, <<1, 1>> }

\* A network is the list of its parameters, in the order parameters() yields
\* them; local and target networks of a pair are built by the same class
\* and so have the same parameters.
ParamNames == <<"weight", "bias">>
ParamValues == { <<-1, 1>>, <<3, 2>> }
ParamVectors == [1..Len(ParamNames) -> ParamValues]

-----------------------------------------------------------------------------
(* The outcome of a call *)

Call(op, exc, learns, trace, net, t, batch) ==
    [op |-> op, exc |-> exc, learns |-> learns, trace |-> trace,
     net |-> net, tau |-> t, batch |-> batch]

NoTau == <<0, 1>>
Plain(op) == Call(op, "none", 0, <<>>, "", NoTau, <<>>)

-----------------------------------------------------------------------------
(* class ReplayBuffer *)

\* ReplayBuffer.__init__: the attributes of the new object.  random.seed
\* returns None, which is what self.seed holds.
ReplayBuffer(size, seed) ==
    [memory |-> <<>>,
     maxlen |-> size,
     experience |-> <<"state", "action", "reward", "next_state", "done">>,
     seed |-> "None"]

\* The namedtuple "Experience".
experience(state, action, reward, next_state, done) ==
    [state |-> state, action |-> action, reward |-> reward,
     next_state |-> next_state, done |-> done]

\* append without the bound: nothing is ever dropped.
append_unbounded(deque, maxlen, e) == Append(deque, e)

\* deque.append on a deque built with maxlen: the element goes in on the
\* right, and a deque that then exceeds maxlen drops its leftmost element.
append(deque, maxlen, e) ==
    LET m == Append(deque, e) IN
    IF Len(m) > maxlen THEN Tail(m) ELSE m

\* add with state and next_state exchanged.
add_swapped(self, state, action, reward, next_state, done) ==
    LET e == experience(next_state, action, reward, state, done) IN
    [self EXCEPT !.memory = append(self.memory, self.maxlen, e)]

\* ReplayBuffer.add
add(self, state, action, reward, next_state, done) ==
    LET e == experience(state, action, reward, next_state, done) IN
    [self EXCEPT !.memory = append(self.memory, self.maxlen, e)]

\* ReplayBuffer.__len__
len(self) == Len(self.memory)

\* random.sample(population, k): the lists of k elements at k different
\* positions of the population, in any order.
random_sample(population, k) ==
    { [i \in 1..k |-> population[p[i]]] :
        p \in { q \in [1..k -> 1..Len(population)] :
                  \A i, j \in 1..k : i # j => q[i] # q[j] } }

\* .astype(np.uint8).float() on the done flags
AsUint8(b) == IF b THEN 1 ELSE 0

\* ReplayBuffer.sample: the outcomes of one call.  The first thing it
\* evaluates is self.batch_size; random.sample raises ValueError when asked
\* for more than the population holds; otherwise the five columns of the
\* experiences drawn.
sample(self) ==
    IF "batch_size" \notin DOMAIN self
    THEN { [exc |-> "AttributeError", batch |-> <<>>] }
    ELSE IF self.batch_size > Len(self.memory)
    THEN { [exc |-> "ValueError", batch |-> <<>>] }
    ELSE { [exc |-> "none",
            batch |-> << [i \in 1..Len(es) |-> es[i].state],
                         [i \in 1..Len(es) |-> es[i].action],
                         [i \in 1..Len(es) |-> es[i].reward],
                         [i \in 1..Len(es) |-> es[i].next_state],
                         [i \in 1..Len(es) |-> AsUint8(es[i].done)] >>] :
           es \in random_sample(self.memory, self.batch_size) }

-----------------------------------------------------------------------------
(* A ReplayBuffer used on its own *)

\* What DDGP.__init__ sets apart from the learning parameters and the
\* replay memory; the networks start at some parameter values.
Defaults ==
    /\ step_mem = 0
    /\ train = FALSE
    /\ exploration = <<>>
    /\ actor_local = << <<-1, 1>>, <<3, 2>> >>
    /\ actor_target = << <<3, 2>>, <<-1, 1>> >>
    /\ critic_local = << <<3, 2>>, <<3, 2>> >>
    /\ critic_target = << <<-1, 1>>, <<3, 2>> >>
    /\ steps_since = {}
    /\ soft_calls = 0

\* ReplayBuffer(buffer_size, seed); batch_size is the batch its user means
\* to draw.
InitBuffer ==
    /\ buffer_size \in 0..MaxBufferSize
    /\ batch_size \in 0..MaxBatchSize
    /\ min_req_exp = 0
    /\ learn_every = 1
    /\ tau = <<1, 4>>
    /\ memory = ReplayBuffer(buffer_size, 0)
    /\ adds = <<>>
    /\ last = Plain("init")
    /\ Defaults

BufferAdd(in) ==
    /\ Len(adds) < MaxAdds
    /\ memory' = add(memory, in[1], in[2], in[3], in[4], in[5])
    /\ adds' = Append(adds, in)
    /\ last' = Plain("add")
    /\ UNCHANGED <<config, step_mem, train, exploration, nets, steps_since,
                   soft_calls>>

BufferSample ==
    \E r \in sample(memory) :
        /\ last' = Call("sample", r.exc, 0, <<>>, "", NoTau, r.batch)
        /\ UNCHANGED <<config, memory, step_mem, train, exploration, nets,
                       adds, steps_since, soft_calls>>

NextBuffer ==
    \/ \E in \in Inputs : BufferAdd(in)
    \/ BufferSample

SpecBuffer == InitBuffer /\ [][NextBuffer]_vars

-----------------------------------------------------------------------------
(* class DDGP *)

\* The factors of self.exploration, in thousandths.
TriggerDecay == 975
LearnDecay == 999

\* soft_update with the weights of local and target exchanged.
soft_update_swapped(local_model, target_model, t) ==
    [i \in 1..Len(target_model) |->
        IF i <= Len(local_model)
        THEN RAdd(RMul(RSub(ROne, t), local_model[i]),
                  RMul(t, target_model[i]))
        ELSE target_model[i]]

\* DDGP.soft_update: the target's parameters after the call.  zip pairs the
\* two parameter lists position by position and stops at the shorter one;
\* each target parameter is overwritten in place from its own old value.
soft_update(local_model, target_model, t) ==
    [i \in 1..Len(target_model) |->
        IF i <= Len(local_model)
        THEN RAdd(RMul(t, local_model[i]),
                  RMul(RSub(ROne, t), target_model[i]))
        ELSE target_model[i]]

\* DDGP.learn: the outcomes of one call.  The exploration coefficient decays,
\* then the batch is drawn; an exception of sample ends the call there.  With
\* a batch in hand the next statement reads agent and BATCH_SIZE, names that
\* neither learn nor the module binds, so the call ends in NameError before
\* any network is touched.
learn(mem, expl) ==
    { [exploration |-> Append(expl, LearnDecay),
       exc |-> IF r.exc # "none" THEN r.exc ELSE "NameError",
       trace |-> IF r.exc # "none" THEN <<>> ELSE <<"sample">>] :
      r \in sample(mem) }

\* The test with >= for >.
ShouldLearn_ge(mem, batch) == len(mem) >= batch

\* DDGP.trigger_learn's test for calling learn.
ShouldLearn(mem, batch) == len(mem) > batch

\* The flag assigned the test's value, so a later step clears it.
TrainAfter_assign(step, every, flag) == step % every = 0

\* DDGP.update_counter's value for self.train.
TrainAfter(step, every, flag) == IF step % every = 0 THEN TRUE ELSE flag

\* DDGP(name, state_size, action_size, random_seed, buffer_size, batch_size,
\*      min_req_exp, consec_learn_iter, learn_every, ..., tau, gamma)
Init ==
    /\ buffer_size \in 1..MaxBufferSize
    /\ batch_size \in 0..MaxBatchSize
    /\ min_req_exp \in 0..MaxMinReqExp
    /\ learn_every \in 1..MaxLearnEvery
    /\ tau = <<1, 4>>
    /\ memory = ReplayBuffer(buffer_size, 0)
    /\ adds = <<>>
    /\ last = Plain("init")
    /\ Defaults

\* DDGP.memorize
memorize(state, action, reward, next_tate, done) ==
    /\ Len(adds) < MaxAdds
    /\ memory' = add(memory, state, action, reward, next_tate, done)
    /\ adds' = Append(adds, <<state, action, reward, next_tate, done>>)
    /\ last' = Plain("memorize")
    /\ UNCHANGED <<config, step_mem, train, exploration, nets, steps_since,
                   soft_calls>>

\* DDGP.trigger_learn
trigger_learn ==
    /\ Len(exploration) + 2 <= MaxDecay
    /\ train' = FALSE
    /\ steps_since' = {}
    /\ IF ShouldLearn(memory, batch_size)
       THEN \E o \in learn(memory, Append(exploration, TriggerDecay)) :
               /\ exploration' = o.exploration
               /\ last' = Call("trigger_learn", o.exc, 1, o.trace, "", NoTau,
                               <<>>)
       ELSE /\ exploration' = Append(exploration, TriggerDecay)
            /\ last' = Plain("trigger_learn")
    /\ UNCHANGED <<config, memory, step_mem, nets, adds, soft_calls>>

\* DDGP.update_counter
update_counter ==
    /\ step_mem < MaxStepMem
    /\ step_mem' = step_mem + 1
    /\ train' = TrainAfter(step_mem', learn_every, train)
    /\ steps_since' = steps_since \cup {step_mem'}
    /\ last' = Plain("update_counter")
    /\ UNCHANGED <<config, memory, exploration, nets, adds, soft_calls>>

\* DDGP.reset.  The noise process is only ever moved by act, which is not
\* part of this model, so noise.reset() finds it at mu and leaves it there.
reset ==
    /\ step_mem' = 0
    /\ train' = FALSE
    /\ steps_since' = {}
    /\ last' = Plain("reset")
    /\ UNCHANGED <<config, memory, exploration, nets, adds, soft_calls>>

\* DDGP.learn called directly
Learn ==
    /\ Len(exploration) + 1 <= MaxDecay
    /\ \E o \in learn(memory, exploration) :
          /\ exploration' = o.exploration
          /\ last' = Call("learn", o.exc, 1, o.trace, "", NoTau, <<>>)
    /\ UNCHANGED <<config, memory, step_mem, train, nets, adds, steps_since,
                   soft_calls>>

Next ==
    \/ \E in \in Inputs : memorize(in[1], in[2], in[3], in[4], in[5])
    \/ trigger_learn
    \/ update_counter
    \/ reset
    \/ Learn

Spec == Init /\ [][Next]_vars

-----------------------------------------------------------------------------
(* soft_update on the agent's network pairs, as learn calls it *)

InitSoft ==
    /\ buffer_size = 1
    /\ batch_size = 0
    /\ min_req_exp = 0
    /\ learn_every = 1
    /\ tau = <<1, 4>>
    /\ memory = ReplayBuffer(buffer_size, 0)
    /\ adds = <<>>
    /\ last = Plain("init")
    /\ step_mem = 0
    /\ train = FALSE
    /\ exploration = <<>>
    /\ actor_local \in ParamVectors
    /\ actor_target \in ParamVectors
    /\ critic_local \in ParamVectors
    /\ critic_target \in ParamVectors
    /\ steps_since = {}
    /\ soft_calls = 0

\* self.soft_update(self.critic_local, self.critic_target, t)
SoftUpdateCritic(t) ==
    /\ soft_calls < MaxSoftCalls
    /\ soft_calls' = soft_calls + 1
    /\ critic_target' = soft_update(critic_local, critic_target, t)
    /\ last' = Call("soft_update", "none", 0, <<>>, "critic", t, <<>>)
    /\ UNCHANGED <<config, memory, step_mem, train, exploration, actor_local,
                   actor_target, critic_local, adds, steps_since>>

\* self.soft_update(self.actor_local, self.actor_target, t)
SoftUpdateActor(t) ==
    /\ soft_calls < MaxSoftCalls
    /\ soft_calls' = soft_calls + 1
    /\ actor_target' = soft_update(actor_local, actor_target, t)
    /\ last' = Call("soft_update", "none", 0, <<>>, "actor", t, <<>>)
    /\ UNCHANGED <<config, memory, step_mem, train, exploration, actor_local,
                   critic_local, critic_target, adds, steps_since>>

NextSoft ==
    \/ \E t \in Taus : SoftUpdateCritic(t)
    \/ \E t \in Taus : SoftUpdateActor(t)

SpecSoft == InitSoft /\ [][NextSoft]_vars

-----------------------------------------------------------------------------
(* Properties *)

\* C1: on a buffer built with buffer_size = N, len(buffer) equals
\* min(number of adds, N) after any sequence of adds, and never exceeds N.
C1_LenIsMinOfAddsAndCapacity ==
    /\ len(memory) = Min(Len(adds), buffer_size)
    /\ len(memory) <= buffer_size

\* An add has found the buffer full and the length stayed at the capacity.
C1_Witness ==
    /\ last.op = "add"
    /\ buffer_size >= 1
    /\ Len(adds) > buffer_size
    /\ len(memory) = buffer_size

\* C2: after k adds the buffer holds exactly the most recent
\* min(k, buffer_size) experiences, in insertion order, each with its five
\* fields as they were passed in.
C2_HoldsMostRecentInOrder ==
    LET k == Len(adds)
        n == Min(k, buffer_size)
    IN  /\ Len(memory.memory) = n
        /\ \A i \in 1..n :
              LET e == memory.memory[i]
                  a == adds[k - n + i]
              IN  /\ e.state = a[1]
                  /\ e.action = a[2]
                  /\ e.reward = a[3]
                  /\ e.next_state = a[4]
                  /\ e.done = a[5]

\* The oldest experience has been evicted from a buffer of two or more, and
\* the buffer holds different experiences.
C2_Witness ==
    /\ last.op = "memorize"
    /\ buffer_size >= 2
    /\ Len(adds) > buffer_size
    /\ memory.memory[1] # memory.memory[2]
    /\ adds[1] # adds[2]

\* C3: sample, called on a buffer built by ReplayBuffer(buffer_size, seed)
\* that holds at least batch_size experiences, returns the five columns of
\* batch_size experiences stored at different positions of the buffer.
C3_SampleReturnsStoredBatch ==
    (last.op = "sample" /\ len(memory) >= batch_size) =>
        /\ last.exc = "none"
        /\ Len(last.batch) = 5
        /\ \E p \in [1..batch_size -> 1..len(memory)] :
              /\ \A i, j \in 1..batch_size : i # j => p[i] # p[j]
              /\ \A c \in 1..5 : Len(last.batch[c]) = batch_size
              /\ \A i \in 1..batch_size :
                    LET e == memory.memory[p[i]] IN
                    /\ last.batch[1][i] = e.state
                    /\ last.batch[2][i] = e.action
                    /\ last.batch[3][i] = e.reward
                    /\ last.batch[4][i] = e.next_state
                    /\ (last.batch[5][i] = 1) = e.done

\* r = t*l + (1 - t)*g, on rationals, by cross-multiplication.
IsBlend(r, t, l, g) ==
    r[1] * (t[2] * l[2] * g[2])
        = r[2] * (t[1] * l[1] * g[2] + (t[2] - t[1]) * g[1] * l[2])

BlendsInto(local, target, localAfter, targetAfter, t) ==
    /\ localAfter = local
    /\ Len(targetAfter) = Len(target)
    /\ \A i \in 1..Len(target) :
          IsBlend(targetAfter[i], t, local[i], target[i])
    /\ (t = <<0, 1>> => targetAfter = target)
    /\ (t = <<1, 1>> => targetAfter = local)

\* C4: soft_update replaces every target parameter by
\* tau*local + (1 - tau)*target of the values before the call, position by
\* position, and leaves the local parameters unchanged; tau = 0 leaves the
\* target unchanged and tau = 1 makes it equal to the local model.
C4_SoftUpdateBlends ==
    [][ (last'.op = "soft_update") =>
          /\ (last'.net = "critic") =>
                BlendsInto(critic_local, critic_target,
                           critic_local', critic_target', last'.tau)
          /\ (last'.net = "actor") =>
                BlendsInto(actor_local, actor_target,
                           actor_local', actor_target', last'.tau)
      ]_vars

\* A soft update with 0 < tau < 1 has moved a target parameter to a value
\* strictly between the two it was blended from.
C4_Witness ==
    /\ last.op = "soft_update"
    /\ last.net = "critic"
    /\ last.tau = <<1, 4>>
    /\ \E i \in 1..Len(critic_target) :
          /\ critic_target[i] \notin ParamValues
          /\ critic_target[i] # critic_local[i]

LearnSteps == <<"sample", "critic", "actor", "soft_critic", "soft_actor">>

\* C5: learn, called on an agent whose buffer holds more than batch_size
\* experiences, runs to completion and performs in order: sample, critic
\* update, actor update, soft update of the critic target, soft update of
\* the actor target.
C5_LearnRunsToCompletion ==
    (last.learns > 0 /\ len(memory) > batch_size) =>
        /\ last.exc = "none"
        /\ last.trace = LearnSteps

\* C6: learn is never invoked by trigger_learn while fewer than min_req_exp
\* experiences have been memorized.
C6_NoLearnBeforeMinReqExp ==
    (last.op = "trigger_learn" /\ last.learns > 0) =>
        Len(adds) >= min_req_exp

C7_TrainIffMultipleSeen ==
    train <=> (\E s \in steps_since : s % learn_every = 0)

C7_UpdateCounterStep ==
    (last'.op = "update_counter") =>
        /\ step_mem' = step_mem + 1
        /\ (step_mem' % learn_every = 0 => train')
        /\ (train => train')

\* C7: update_counter increments step_mem by exactly 1, sets train when the
\* new step_mem is a multiple of learn_every and never clears it; train is
\* True exactly when, since the latest of construction, reset and
\* trigger_learn, some update_counter brought step_mem to a multiple of
\* learn_every.
C7_TrainFlag ==
    /\ []C7_TrainIffMultipleSeen
    /\ [][C7_UpdateCounterStep]_vars

\* update_counter has left train set on a step that is no multiple of
\* learn_every.
C7_Witness ==
    /\ last.op = "update_counter"
    /\ train
    /\ step_mem % learn_every # 0
    /\ steps_since # {step_mem}

\* C8: trigger_learn always clears train and invokes learn exactly once if
\* and only if len(memory) > batch_size, so learn never starts with
\* batch_size or fewer experiences stored and the batch never exceeds what
\* is stored; when the test fails, the replay memory, step_mem and the
\* network parameters are unchanged.
C8_TriggerLearnGuard ==
    [][ (last'.op = "trigger_learn") =>
          /\ ~train'
          /\ last'.learns = (IF Len(memory.memory) > batch_size THEN 1 ELSE 0)
          /\ (last'.learns > 0 => batch_size < Len(memory'.memory))
          /\ (~(Len(memory.memory) > batch_size) =>
                /\ memory' = memory
                /\ step_mem' = step_mem
                /\ nets' = nets)
      ]_vars

\* trigger_learn has found exactly batch_size experiences stored, with train
\* set before the call, and has not called learn.
C8_Witness ==
    /\ last.op = "trigger_learn"
    /\ last.learns = 0
    /\ batch_size >= 1
    /\ len(memory) = batch_size
    /\ step_mem >= 1
    /\ step_mem % learn_every = 0

====
